---------------------------- MODULE Spec2Model ----------------------------
(***************************************************************************)
(* Model of geoapp/views.py: the two Django views `home` and               *)
(* `history_view`, the two upstream HTTP APIs they call and the MongoDB    *)
(* collection they write and read.                                         *)
(*                                                                         *)
(* One request is served at a time.  `home` blocks on one outbound call    *)
(* after the other, so it is modelled as the steps between those calls:    *)
(*   Home         lines 38-60 and 132-133: form and country lookup         *)
(*   Sample       lines 62-64: the draw of random.sample                   *)
(*   EnrichStep   lines 66-107: one iteration of the loop (one weather     *)
(*                call at most)                                            *)
(*   Persist      lines 109-130: insert_one and the results page           *)
(* While a request is in flight (pc # "ready") only its next step is       *)
(* enabled.  `history_view` (lines 144-153) is one step.                   *)
(*                                                                         *)
(* Python's None is <<>> and a present value x is <<x>>.                   *)
(***************************************************************************)
EXTENDS Integers, Sequences, FiniteSets, TLC

VARIABLES
    OPENWEATHER_API_KEY,   \* line 16: os.getenv(...), fixed at import time
    history_collection,    \* line 22: the documents of search_history, in insertion order
    clock,                 \* the instant datetime.utcnow() returns next (line 115);
                           \* a later request reads a later instant
    pc,                    \* position of the request being served
    request,               \* the request being served (or served last)
    countries_data,        \* line 57
    sample,                \* line 63, as the positions in countries_data it drew
    results,               \* line 64
    calls,                 \* the outbound calls the request has made so far
    response,              \* what the view returned (or raised) last
    hist0                  \* history_collection when the request arrived

vars == <<OPENWEATHER_API_KEY, history_collection, clock, pc, request,
          countries_data, sample, results, calls, response, hist0>>

-----------------------------------------------------------------------------
(* Bounds of the model and constants of the program. *)

\* Largest country list the directory API returns.
MaxCountries == 6

\* Most documents the collection holds before no further search is submitted.
MaxHistory == 21

\* Most inserts that fail in one behaviour of the history scenario.
MaxStoreFailures == 1

\* line 63: min(5, len(countries_data))
SampleSize == 5

\* line 147: .limit(20)
HistoryLimit == 20

None == << >>

Some(x) == <<x>>

Min(a, b) == IF a < b THEN a ELSE b

Range(s) == {s[j] : j \in 1..Len(s)}

\* Python truthiness of an optional string (None and "" are falsy).
Truthy(v) == v # None /\ v[1] # ""

-----------------------------------------------------------------------------
(* The requests. *)

Continents == {"Europe", "Asia"}

\* line 38: ContinentForm(request.POST or None) is bound only for a POST that
\* carries data; form.is_valid() holds only for a bound form whose continent
\* is one of the choices.
HomeRequests ==
    {[view |-> "home", method |-> "GET", valid |-> FALSE, continent |-> ""],
     [view |-> "home", method |-> "POST", valid |-> FALSE, continent |-> ""],
     [view |-> "home", method |-> "POST", valid |-> FALSE, continent |-> "Atlantis"]}
    \cup {[view |-> "home", method |-> "POST", valid |-> TRUE, continent |-> c] :
            c \in Continents}

HistoryRequest == [view |-> "history", method |-> "GET", valid |-> FALSE, continent |-> ""]

NoRequest == [view |-> "none", method |-> "", valid |-> FALSE, continent |-> ""]

\* line 44: continent_name.lower()
Lower(s) ==
    CASE s = "Europe" -> "europe"
      [] s = "Asia" -> "asia"
      [] s = "Atlantis" -> "atlantis"
      [] OTHER -> s

\* line 12 and line 49: REST_COUNTRIES_URL.format(region=region_param)
REST_COUNTRIES_URL(region) == <<"https://restcountries.com/v3.1/region/", region>>

-----------------------------------------------------------------------------
(* The country directory's answers. *)

CountryNames == <<"Austria", "Belgium", "Croatia", "Denmark", "Estonia",
                  "Finland", "Greece", "Hungary">>

Capitals == <<"Vienna", "Brussels", "Zagreb", "Copenhagen", "Tallinn",
              "Helsinki", "Athens", "Budapest">>

Populations == <<"8900000", "11500000", "3900000", "5800000", "1300000",
                 "5500000", "10400000", "9700000">>

\* A country object of the directory's JSON array.  The fields the view reads:
\* name (absent, an object with `common`, or not an object), capital (absent or
\* a list), population (absent or a number, kept as its digits), and the two
\* coordinate sources capitalInfo.latlng and latlng.
Country(k) ==
    [name |-> IF k % 5 = 3
                THEN [kind |-> "absent", common |-> ""]
                ELSE [kind |-> "object", common |-> CountryNames[k]],
     capital |-> CASE k % 3 = 1 -> Some(<<Capitals[k], "Second City">>)
                   [] k % 3 = 2 -> None
                   [] OTHER -> Some(<< >>),
     population |-> IF k % 2 = 1 THEN Some(Populations[k]) ELSE None,
     capitalInfo_latlng |-> IF k % 3 = 1 THEN Some(<<k, k + 10>>) ELSE None,
     latlng |-> IF k % 3 # 0 THEN Some(<<k + 20, k + 30>>) ELSE None]

\* The same object with a name that is a JSON string instead of an object.
Malformed(c) == [c EXCEPT !.name = [kind |-> "string", common |-> ""]]

\* An array of the directory: n well-formed countries, or the same with the
\* second one malformed.
CountryList(n, bad) ==
    [k \in 1..n |-> IF bad /\ k = 2 THEN Malformed(Country(k)) ELSE Country(k)]

\* An answer to requests.get (lines 48-51): an exception raised by the call,
\* or a status with a body that is a JSON array, a JSON object or no JSON.
CountryAnswer(exc, status, body, data) ==
    [exc |-> exc, status |-> status, body |-> body, data |-> data]

CountryFailures ==
    {CountryAnswer("Timeout", 0, "none", << >>),
     CountryAnswer("ConnectionError", 0, "none", << >>),
     CountryAnswer("", 404, "object", << >>),
     CountryAnswer("", 500, "not_json", << >>)}

CountryMalformed ==
    {CountryAnswer("", 200, "not_json", << >>),
     CountryAnswer("", 200, "object", << >>)}

CountryArrays ==
    {CountryAnswer("", 200, "array", CountryList(n, bad)) :
        n \in 0..MaxCountries, bad \in BOOLEAN}

CountryAnswers == CountryFailures \cup CountryMalformed \cup CountryArrays

-----------------------------------------------------------------------------
(* The weather API's answers. *)

\* line 15
OPENWEATHER_URL == "https://api.openweathermap.org/data/2.5/weather"

\* An answer to requests.get (lines 78-86): an exception raised by the call, or
\* a status with a body.  `decode` is the class of the error w_resp.json()
\* raises on a body that is no JSON: requests.JSONDecodeError is a
\* RequestException from requests 2.27 on and a plain ValueError before; the
\* repository pins no version, so a build can have either.
WeatherAnswer(exc, status, body, decode) ==
    [exc |-> exc, status |-> status, body |-> body, decode |-> decode]

WeatherAnswers ==
    {WeatherAnswer("Timeout", 0, "none", ""),
     WeatherAnswer("ConnectionError", 0, "none", ""),
     WeatherAnswer("", 404, "object", ""),
     WeatherAnswer("", 200, "full", ""),
     WeatherAnswer("", 200, "empty_weather_array", ""),
     WeatherAnswer("", 200, "not_json", "RequestException"),
     WeatherAnswer("", 200, "not_json", "ValueError")}

\* The answer of a call that was never made.
NoCall == WeatherAnswer("", 0, "none", "")

\* lines 78-86: the weather call as the log keeps it: the query parameters
\* and whether it failed (it raised, or its status is not 200).
WeatherCall(capital, key, w) ==
    [url |-> OPENWEATHER_URL, q |-> capital, appid |-> key, units |-> "metric",
     failed |-> (w.exc # "" \/ w.status # 200)]

\* The temperature and description the weather API reports for a city.
WeatherOf(capital) == [temp |-> <<"temp", capital>>, description |-> <<"sky", capital>>]

-----------------------------------------------------------------------------
(* What the views hand back. *)

\* render(request, template, context): the template and the context keys the
\* claims read (an absent key is None).  `raised` names an exception that left
\* the view instead.
Rendered(template, error, continent, res, searches) ==
    [template |-> template, error |-> error, continent |-> continent,
     results |-> res, searches |-> searches, raised |-> ""]

Raised(exc) ==
    [template |-> "", error |-> None, continent |-> None,
     results |-> None, searches |-> None, raised |-> exc]

NoResponse == Raised("")

\* lines 39, 55, 60, 133
FormPage(error) == Rendered("continent_form.html", error, None, None, None)

\* lines 122-130
ResultsPage(continent_name, res) ==
    Rendered("search_results.html", None, Some(continent_name), Some(res), None)

\* line 153
HistoryPage(searches) == Rendered("history.html", None, None, None, Some(searches))

\* The log of a request's outbound calls: the country lookups, the weather
\* calls, and the outcomes of insert_one and of find ("" is success).
NoCalls == [country |-> << >>, weather |-> << >>, insert |-> << >>, find |-> << >>]

\* lines 48-52: the country lookup as the log keeps it: the URL, and what came
\* back (the exception or the status, the kind of body and its length).
CountryCall(region, a) ==
    [url |-> REST_COUNTRIES_URL(region), exc |-> a.exc, status |-> a.status,
     body |-> a.body, len |-> Len(a.data)]

-----------------------------------------------------------------------------
(* home: form, country lookup and sample (lines 38-64, 132-133). *)

\* Submitted without the is_valid() test.
Submitted_AnyPost(r) == r.method = "POST"

\* line 41: request.method == "POST" and form.is_valid()
Submitted(r) == r.method = "POST" /\ r.valid

\* LookupFails without the call of raise_for_status().
LookupFails_NoStatusCheck(a) == a.exc # ""

\* lines 47-53: requests.get raised, or raise_for_status() did (4xx, 5xx);
\* both are RequestExceptions.
LookupFails(a) == a.exc # "" \/ (a.status >= 400 /\ a.status < 600)

\* IsEmpty without the test of line 58.
IsEmpty_Never(a) == FALSE

\* line 58: not countries_data
IsEmpty(a) == a.body = "array" /\ a.data = << >>

RECURSIVE Arrangements(_, _)
\* The sequences of k distinct elements of S.
Arrangements(S, k) ==
    IF k = 0 THEN {<< >>}
    ELSE UNION {{<<x>> \o t : t \in Arrangements(S \ {x}, k - 1)} : x \in S}

\* line 63: random.sample(countries_data, min(5, len(countries_data))) draws
\* positions of the list without replacement, in any order.
RandomSample(n) == Arrangements(1..n, Min(SampleSize, n))

NoAnswer == CountryAnswer("", 0, "none", << >>)

\* The answers the lookup of this request can get (no call, no answer).
AnswersFor(r, answers) == IF Submitted(r) THEN answers ELSE {NoAnswer}

Home(r, a) ==
    /\ pc = "ready"
    /\ request' = r
    /\ hist0' = history_collection
    /\ sample' = << >>
    /\ results' = << >>
    /\ UNCHANGED <<OPENWEATHER_API_KEY, history_collection, clock>>
    /\ IF ~Submitted(r)
         THEN \* line 133
              /\ calls' = NoCalls
              /\ countries_data' = << >>
              /\ response' = FormPage(None)
              /\ pc' = "ready"
         ELSE /\ calls' = [NoCalls EXCEPT
                             !.country = <<CountryCall(Lower(r.continent), a)>>]
              /\ IF LookupFails(a)
                   THEN \* lines 53-55
                        /\ countries_data' = << >>
                        /\ response' = FormPage(Some("Failed to fetch countries data."))
                        /\ pc' = "ready"
                   ELSE IF a.body = "not_json"
                   THEN \* line 57, outside every try
                        /\ countries_data' = << >>
                        /\ response' = Raised("JSONDecodeError")
                        /\ pc' = "ready"
                   ELSE IF a.body = "object"
                   THEN \* line 63 on a dict
                        /\ countries_data' = << >>
                        /\ response' = Raised("TypeError")
                        /\ pc' = "ready"
                   ELSE IF IsEmpty(a)
                   THEN \* lines 58-60
                        /\ countries_data' = a.data
                        /\ response' = FormPage(Some("No countries found for this continent."))
                        /\ pc' = "ready"
                   ELSE /\ countries_data' = a.data
                        /\ response' = NoResponse
                        /\ pc' = "sample"

\* lines 63-64
Sample(s) ==
    /\ pc = "sample"
    /\ sample' = s
    /\ results' = << >>
    /\ pc' = IF s = << >> THEN "persist" ELSE "enrich"
    /\ UNCHANGED <<OPENWEATHER_API_KEY, history_collection, clock, request,
                   countries_data, calls, response, hist0>>

-----------------------------------------------------------------------------
(* home: one iteration of the loop (lines 66-107). *)

\* line 67 raises AttributeError when name is not an object.
NameRaises(c) == c.name.kind = "string"

\* line 67: c.get("name", {}).get("common", "Unknown")
NameOf(c) == IF c.name.kind = "object" THEN c.name.common ELSE "Unknown"

\* lines 68-69
CapitalOf(c) ==
    LET capital_list == IF c.capital = None THEN << >> ELSE c.capital[1]
    IN  IF capital_list # << >> THEN capital_list[1] ELSE "N/A"

\* line 70: c.get("population", "N/A")
PopulationOf(c) == IF c.population = None THEN "N/A" ELSE c.population[1]

\* line 71: c.get("capitalInfo", {}).get("latlng") or c.get("latlng")
LatLngOf(c) == IF c.capitalInfo_latlng # None THEN c.capitalInfo_latlng ELSE c.latlng

\* WantsWeather without the test of the key.
WantsWeather_IgnoresKey(capital, key) == capital # "N/A"

\* line 76: capital != "N/A" and OPENWEATHER_API_KEY
WantsWeather(capital, key) == capital # "N/A" /\ Truthy(key)

\* lines 77-97: what leaves the try.  A RequestException is caught; the
\* IndexError of weather[0] on an empty array and a ValueError are not.
WeatherRaises(w) ==
    IF w.exc # "" \/ w.status # 200 THEN ""
    ELSE IF w.body = "empty_weather_array" THEN "IndexError"
    ELSE IF w.body = "not_json" /\ w.decode = "ValueError" THEN "JSONDecodeError"
    ELSE ""

\* lines 73, 87-94: weather_info after the try.
WeatherInfo(w, capital) ==
    IF w.exc = "" /\ w.status = 200 /\ w.body = "full"
    THEN Some(WeatherOf(capital))
    ELSE None

\* lines 99-107
ResultItem(c, weather_info) ==
    [country |-> NameOf(c), capital |-> CapitalOf(c), population |-> PopulationOf(c),
     latlng |-> LatLngOf(c), weather |-> weather_info]

\* The country the loop is at.
Current == countries_data[sample[Len(results) + 1]]

EnrichStep(w) ==
    /\ pc = "enrich"
    /\ UNCHANGED <<OPENWEATHER_API_KEY, history_collection, clock, request,
                   countries_data, sample, hist0>>
    /\ LET c == Current
       IN  IF NameRaises(c)
           THEN /\ w = NoCall
                /\ response' = Raised("AttributeError")
                /\ pc' = "ready"
                /\ UNCHANGED <<results, calls>>
           ELSE IF ~WantsWeather(CapitalOf(c), OPENWEATHER_API_KEY)
           THEN /\ w = NoCall
                /\ results' = Append(results, ResultItem(c, None))
                /\ pc' = IF Len(results') = Len(sample) THEN "persist" ELSE "enrich"
                /\ UNCHANGED <<calls, response>>
           ELSE /\ w # NoCall
                /\ calls' = [calls EXCEPT !.weather =
                       Append(@, WeatherCall(CapitalOf(c), OPENWEATHER_API_KEY, w))]
                /\ IF WeatherRaises(w) # ""
                     THEN /\ response' = Raised(WeatherRaises(w))
                          /\ pc' = "ready"
                          /\ UNCHANGED results
                     ELSE /\ results' = Append(results,
                                 ResultItem(c, WeatherInfo(w, CapitalOf(c))))
                          /\ pc' = IF Len(results') = Len(sample) THEN "persist" ELSE "enrich"
                          /\ UNCHANGED response

-----------------------------------------------------------------------------
(* home: insert and results page (lines 109-130). *)

\* The ways insert_one fails ("" is success).
InsertOutcomes == {"", "ServerSelectionTimeoutError"}

\* insert_one outside any try.
InsertCaught_Never(exc) == FALSE

\* line 119: except Exception
InsertCaught(exc) == TRUE

\* Document with region_param where continent_name belongs.
Document_StoresRegion(continent_name, now, res) ==
    [continent |-> Lower(continent_name), searched_at |-> now, results |-> res]

\* lines 113-117
Document(continent_name, now, res) ==
    [continent |-> continent_name, searched_at |-> now, results |-> res]

Persist(exc) ==
    /\ pc = "persist"
    /\ UNCHANGED <<OPENWEATHER_API_KEY, request, countries_data, sample, results, hist0>>
    /\ clock' = clock + 1
    /\ calls' = [calls EXCEPT !.insert = Append(@, exc)]
    /\ history_collection' =
          IF exc = ""
          THEN Append(history_collection, Document(request.continent, clock, results))
          ELSE history_collection
    /\ response' = IF exc = "" \/ InsertCaught(exc)
                   THEN ResultsPage(request.continent, results)
                   ELSE Raised(exc)
    /\ pc' = "ready"

-----------------------------------------------------------------------------
(* history_view (lines 144-153). *)

RECURSIVE InsertDesc(_, _)
\* d put into a sequence that is in descending order of searched_at.
InsertDesc(d, sorted) ==
    IF sorted = << >> THEN <<d>>
    ELSE IF d.searched_at >= Head(sorted).searched_at THEN <<d>> \o sorted
    ELSE <<Head(sorted)>> \o InsertDesc(d, Tail(sorted))

\* The documents in insertion order: the sort left out.
SortDesc_Unsorted(docs) == docs

RECURSIVE SortDesc(_)
\* line 147: .sort("searched_at", -1)
SortDesc(docs) ==
    IF docs = << >> THEN << >> ELSE InsertDesc(Head(docs), SortDesc(Tail(docs)))

\* line 147: .limit(20)
Limit(docs, n) == SubSeq(docs, 1, Min(n, Len(docs)))

\* lines 146-148: list(history_collection.find().sort("searched_at", -1).limit(20))
FindRecent(docs) == Limit(SortDesc(docs), HistoryLimit)

\* The ways the read fails ("" is success).
FindOutcomes == {"", "ServerSelectionTimeoutError"}

history_view(exc) ==
    /\ pc = "ready"
    /\ request' = HistoryRequest
    /\ hist0' = history_collection
    /\ countries_data' = << >>
    /\ sample' = << >>
    /\ results' = << >>
    /\ calls' = [NoCalls EXCEPT !.find = <<exc>>]
    /\ response' = HistoryPage(IF exc = "" THEN FindRecent(history_collection) ELSE << >>)
    /\ pc' = "ready"
    /\ UNCHANGED <<OPENWEATHER_API_KEY, history_collection, clock>>

-----------------------------------------------------------------------------
(* The service from start-up. *)

Init ==
    /\ OPENWEATHER_API_KEY \in {None, Some("appid")}
    /\ history_collection = << >>
    /\ clock = 0
    /\ pc = "ready"
    /\ request = NoRequest
    /\ countries_data = << >>
    /\ sample = << >>
    /\ results = << >>
    /\ calls = NoCalls
    /\ response = NoResponse
    /\ hist0 = << >>

\* Spec: every request, every answer of the two APIs and of the store, every
\* draw of the sample.  Searches are submitted until the first of them has
\* reached insert_one; the other requests come at any time.  SpecHistory
\* below follows the searches after the first.
Next ==
    \/ \E r \in HomeRequests : \E a \in AnswersFor(r, CountryAnswers) :
          /\ Submitted(r) => clock = 0
          /\ Home(r, a)
    \/ /\ pc = "sample"
       /\ \E s \in RandomSample(Len(countries_data)) : Sample(s)
    \/ \E w \in WeatherAnswers \cup {NoCall} : EnrichStep(w)
    \/ \E exc \in InsertOutcomes : Persist(exc)
    \/ \E exc \in FindOutcomes : history_view(exc)

Spec == Init /\ [][Next]_vars

-----------------------------------------------------------------------------
(* The history scenario: searches repeated until the collection holds more   *)
(* than history_view shows.  What the t-th search asks and is answered is   *)
(* fixed by t, so that the collection can grow long.                         *)

ScenarioRequests(t) ==
    {[view |-> "home", method |-> "GET", valid |-> FALSE, continent |-> ""],
     [view |-> "home", method |-> "POST", valid |-> TRUE,
      continent |-> IF t % 2 = 0 THEN "Europe" ELSE "Asia"]}

ScenarioAnswers(t) ==
    {CountryAnswer("Timeout", 0, "none", << >>),
     CountryAnswer("", 200, "array", CountryList((t % 4) + 1, FALSE))}

\* One draw of RandomSample(n): the positions rotated by t + 1.
ScenarioSample(t, n) == [j \in 1..n |-> ((j + t + 1) % n) + 1]

ScenarioWeather(t) ==
    CASE t % 3 = 0 -> WeatherAnswer("", 200, "full", "")
      [] t % 3 = 1 -> WeatherAnswer("Timeout", 0, "none", "")
      [] OTHER -> WeatherAnswer("", 404, "object", "")

NextHistory ==
    \/ /\ Len(history_collection) < MaxHistory
       /\ \E r \in ScenarioRequests(clock) : \E a \in AnswersFor(r, ScenarioAnswers(clock)) :
             Home(r, a)
    \/ /\ pc = "sample"
       /\ \E s \in RandomSample(Len(countries_data)) \cap
                    {ScenarioSample(clock, Len(countries_data))} : Sample(s)
    \/ \E w \in {ScenarioWeather(clock + Len(results)), NoCall} : EnrichStep(w)
    \/ \E exc \in InsertOutcomes :
          /\ exc # "" => clock - Len(history_collection) < MaxStoreFailures
          /\ Persist(exc)
    \/ \E exc \in FindOutcomes : history_view(exc)

SpecHistory == Init /\ [][NextHistory]_vars

-----------------------------------------------------------------------------
(* The properties. *)

\* home has returned (or raised) and no later request has come.
HomeReturned == pc = "ready" /\ request.view = "home"

\* history_view has returned and no later request has come.
HistoryReturned == pc = "ready" /\ request.view = "history"

ValidPost == request.method = "POST" /\ request.valid

\* The country lookup was made and failed: it raised (timeout, connection
\* error) or came back with a 4xx or 5xx status.
LookupFailed ==
    /\ calls.country # << >>
    /\ calls.country[1].exc # "" \/ calls.country[1].status \in 400..599

\* The country lookup came back 200 with a JSON array.
LookupGaveArray ==
    /\ calls.country # << >>
    /\ calls.country[1].exc = ""
    /\ calls.country[1].status = 200
    /\ calls.country[1].body = "array"

\* The array was empty.
LookupGaveNone == LookupGaveArray /\ calls.country[1].len = 0

\* The array held at least one country.
LookupGaveSome == LookupGaveArray /\ calls.country[1].len > 0

\* The response is the form page with this error (None: no error key).
IsFormPage(error) ==
    /\ response.raised = ""
    /\ response.template = "continent_form.html"
    /\ response.error = error
    /\ response.results = None
    /\ response.continent = None

\* The response is the results page for the submitted continent, showing res.
IsResultsPage(res) ==
    /\ response.raised = ""
    /\ response.template = "search_results.html"
    /\ response.error = None
    /\ response.continent = Some(request.continent)
    /\ response.results = Some(res)

\* C1: a valid POST whose country lookup fails (timeout, connection error,
\* 4xx/5xx) gets the form page with exactly "Failed to fetch countries data.",
\* makes no weather call and no insert, and leaves the collection as it was.
C1_LookupFailureShowsFetchError ==
    (HomeReturned /\ ValidPost /\ LookupFailed) =>
        /\ IsFormPage(Some("Failed to fetch countries data."))
        /\ calls.weather = << >>
        /\ calls.insert = << >>
        /\ history_collection = hist0

C1_Witness ==
    /\ HomeReturned /\ ValidPost /\ LookupFailed
    /\ calls.country[1].status = 404
    /\ IsFormPage(Some("Failed to fetch countries data."))

\* C2: a valid POST whose country lookup succeeds with an empty list gets the
\* form page with "No countries found for this continent." (not the message
\* of a failed lookup), makes no weather call and no insert, and leaves the
\* collection as it was.
C2_EmptyListShowsNoCountries ==
    (HomeReturned /\ ValidPost /\ LookupGaveNone) =>
        /\ IsFormPage(Some("No countries found for this continent."))
        /\ response.error # Some("Failed to fetch countries data.")
        /\ calls.weather = << >>
        /\ calls.insert = << >>
        /\ history_collection = hist0

C2_Witness ==
    /\ HomeReturned /\ ValidPost /\ LookupGaveNone
    /\ IsFormPage(Some("No countries found for this continent."))

\* C3: the collection changes only during a valid POST whose lookup gave a
\* non-empty list; a GET or a POST with a missing or invalid continent makes no
\* outbound call (country lookup, weather, store), inserts nothing, and gets
\* the form page with no results and no error.
C3_OnlySearchesInsert ==
    /\ history_collection # hist0 =>
          request.view = "home" /\ ValidPost /\ LookupGaveSome
    /\ (HomeReturned /\ ~ValidPost) =>
          /\ calls = NoCalls
          /\ history_collection = hist0
          /\ IsFormPage(None)

C3_Witness ==
    /\ HomeReturned
    /\ request.method = "POST" /\ ~request.valid /\ request.continent = "Atlantis"
    /\ IsFormPage(None)
    /\ history_collection # << >>

\* The country object the j-th sampled position stands for.
Sampled(j) == countries_data[sample[j]]

\* The country object has a capital: a capital list that is there and not empty.
HasCapital(c) == c.capital # None /\ c.capital[1] # << >>

\* The sampled positions the loop has got to (the one it raised at included).
Visited == 1..Min(Len(results) + 1, Len(sample))

\* C4: for a non-empty list of N countries home produces exactly min(5, N)
\* result items, the j-th made from the j-th sampled country, every sampled
\* country a different entry of the list.
C4_SampleSizeAndOrigin ==
    (HomeReturned /\ ValidPost /\ LookupGaveSome) =>
        /\ IsResultsPage(results)
        /\ Len(results) = Min(5, calls.country[1].len)
        /\ Len(sample) = Len(results)
        /\ \A j \in 1..Len(sample) : sample[j] \in 1..calls.country[1].len
        /\ \A j, k \in 1..Len(sample) : sample[j] = sample[k] => j = k
        /\ \A j \in 1..Len(results) :
              results[j].country =
                 IF Sampled(j).name.kind = "object" THEN Sampled(j).name.common
                 ELSE "Unknown"

\* C5: every weather call is for a sampled country that has a capital, with
\* the configured credential; a sampled country without a capital (absent or
\* empty list) gets capital "N/A", no call and no weather; with no credential
\* configured no call is made and no item has weather.
C5_WeatherOnlyWithCapitalAndKey ==
    /\ \A n \in 1..Len(calls.weather) :
          /\ OPENWEATHER_API_KEY \notin {None, Some("")}
          /\ calls.weather[n].appid = OPENWEATHER_API_KEY
          /\ calls.weather[n].q # "N/A"
          /\ \E j \in Visited :
                HasCapital(Sampled(j)) /\ calls.weather[n].q = Sampled(j).capital[1][1]
    /\ Len(calls.weather) <= Cardinality({j \in Visited : HasCapital(Sampled(j))})
    /\ \A j \in 1..Len(results) :
          ~HasCapital(Sampled(j)) =>
              /\ results[j].capital = "N/A"
              /\ results[j].weather = None
              /\ \A n \in 1..Len(calls.weather) : calls.weather[n].q # results[j].capital
    /\ OPENWEATHER_API_KEY \in {None, Some("")} =>
          /\ calls.weather = << >>
          /\ \A j \in 1..Len(results) : results[j].weather = None

C5_Witness ==
    /\ HomeReturned /\ IsResultsPage(results)
    /\ OPENWEATHER_API_KEY # None
    /\ Len(calls.weather) = 2
    /\ \E j \in 1..Len(results) : results[j].capital = "N/A"
    /\ \E j \in 1..Len(results) : results[j].weather # None

\* The result item of the country a weather call asked about (if it has one).
ItemsFor(call) == {j \in 1..Len(results) : results[j].capital = call.q}

\* C6: when the weather call of a sampled country fails (non-200, transport
\* error, timeout) its item still carries country, capital, population and
\* coordinates with no weather, no exception leaves home, every sampled
\* country gets its item, and the request ends in the results page.
C6_WeatherFailureIsolated ==
    (HomeReturned /\ \E n \in 1..Len(calls.weather) : calls.weather[n].failed) =>
        /\ IsResultsPage(results)
        /\ Len(results) = Len(sample)
        /\ \A n \in 1..Len(calls.weather) :
              calls.weather[n].failed =>
                 \E j \in ItemsFor(calls.weather[n]) :
                    /\ results[j].weather = None
                    /\ results[j].capital = Sampled(j).capital[1][1]
                    /\ results[j].latlng \in {Sampled(j).capitalInfo_latlng, Sampled(j).latlng}

\* The collection is hist0 with one document appended.
OneAppended ==
    /\ Len(history_collection) = Len(hist0) + 1
    /\ SubSeq(history_collection, 1, Len(hist0)) = hist0

Newest == history_collection[Len(history_collection)]

\* C7 as claimed: a valid POST whose lookup gave a non-empty list, once home
\* has returned the results page, has added exactly one document, which holds
\* the submitted continent and the results shown, in order.
C7_EverySearchIsStored ==
    (HomeReturned /\ ValidPost /\ LookupGaveSome /\ IsResultsPage(results)) =>
        /\ OneAppended
        /\ Newest.continent = request.continent
        /\ Newest.results = results

\* C7 as amended: a search whose insert_one succeeds adds exactly one
\* document, which holds the submitted continent and the results shown, in
\* order, the item of every sampled country among them; a search whose insert
\* fails, and every other request, adds none; no request changes or removes a
\* document that was there; and a history read that succeeds shows the newest
\* document first.
C7_StoredSearchIsKept ==
    /\ (HomeReturned /\ calls.insert = <<"">>) =>
          /\ ValidPost /\ LookupGaveSome
          /\ IsResultsPage(results)
          /\ OneAppended
          /\ Newest.continent = request.continent
          /\ Newest.results = results
          /\ Len(Newest.results) = Len(sample)
    /\ calls.insert # <<"">> => history_collection = hist0
    /\ history_collection = hist0 \/ OneAppended
    /\ (HistoryReturned /\ calls.find = <<"">> /\ history_collection # << >>) =>
          response.searches[1][1] = Newest

C7_Witness ==
    /\ HomeReturned /\ calls.insert = <<"">>
    /\ Len(history_collection) = 3
    /\ Len(results) = 3
    /\ sample # <<1, 2, 3>>
    /\ history_collection[2].continent # Newest.continent

\* C8: when insert_one fails, home still returns the results page with the
\* submitted continent and the item of every sampled country in order, with
\* no error; only the collection is left as it was.
C8_InsertFailureInvisible ==
    (HomeReturned /\ calls.insert # << >> /\ calls.insert # <<"">>) =>
        /\ IsResultsPage(results)
        /\ Len(results) = Len(sample)
        /\ Len(results) > 0
        /\ history_collection = hist0

C8_Witness ==
    /\ HomeReturned
    /\ calls.insert = <<"ServerSelectionTimeoutError">>
    /\ IsResultsPage(results)
    /\ Len(results) = 5

\* What the history page shows.
Shown == response.searches[1]

\* C9: history_view shows at most 20 documents, newest first by searched_at,
\* and they are the min(20, total) most recent of the collection; when the
\* read fails it shows none and still renders the history page; it never
\* changes the collection.
C9_HistoryShowsNewestTwenty ==
    HistoryReturned =>
        /\ response.raised = ""
        /\ response.template = "history.html"
        /\ response.searches # None
        /\ history_collection = hist0
        /\ calls.find # <<"">> => Shown = << >>
        /\ calls.find = <<"">> =>
              /\ Len(Shown) <= 20
              /\ Len(Shown) = Min(20, Len(history_collection))
              /\ \A j \in 1..Len(Shown) : Shown[j] \in Range(history_collection)
              /\ \A j, k \in 1..Len(Shown) :
                    j < k => Shown[j].searched_at >= Shown[k].searched_at
              /\ \A d \in Range(history_collection) \ Range(Shown) :
                    \A j \in 1..Len(Shown) : d.searched_at <= Shown[j].searched_at

C9_Witness ==
    /\ HistoryReturned /\ calls.find = <<"">>
    /\ Len(history_collection) = 21
    /\ Len(Shown) = 20
    /\ history_collection[1] \notin Range(Shown)

\* C10: no request ends in an exception that leaves the view.
C10_NothingRaises == pc = "ready" => response.raised = ""

=============================================================================
